---- MODULE Spec2Model ----
(***************************************************************************)
(* Token lifecycle and Twitter dispatch of the telegram-social-poster-bot  *)
(* scripts.  The repository holds several stand-alone variants of the bot; *)
(* one of them runs at a time.  Modelled here:                             *)
(*   "z"   social_poster_z.py            TokenManager + post_to_all_platforms *)
(*   "g9"  social_poster_gemini9.py      refresh_twitter_token + post_to_twitter *)
(*   "gt"  social_poster_grok_twitter.py refresh_twitter_token + post_to_twitter *)
(*   "zz"  social_poster_zz.py           post_to_twitter (tweepy client)   *)
(* and, as message handlers (download, fan-out, reply, cleanup), these     *)
(* four together with                                                      *)
(*   "sp"  social_poster.py              handle_photo                      *)
(*   "ap"  auto_post_tg_x_ig_fb.py       post_to_all                       *)
(*   "g2"  social_poster_grok2.py        post_to_all                       *)
(*   "g5"  social_poster_grok5.py        handle_telegram_message           *)
(*   "g6"  social_poster_gemini6.py      handle_photo                      *)
(*   "g7"  social_poster_gemini7.py      handle_photo                      *)
(***************************************************************************)
EXTENDS Integers, Sequences, FiniteSets, TLC

\* ------------------------------------------------------------------ bounds
MaxDispatch == 2
NCallers == 2
MaxUpdates == 2
MaxUpdateId == 3

\* ------------------------------------------------------- program constants
\* the 60 second buffer of _is_expired and of refresh_access_token
ExpiryBuffer == 60
\* expires_in default of data.get('expires_in', 7200)
DefaultExpiresIn == 7200
\* lifetime assumed for a token found in the environment at construction
StartupLifetime == 3600
\* while ... retry_count < 2
MaxRetryCount == 2

\* ------------------------------------------------------------ value spaces
Programs == {"z", "g9", "gt", "zz"}
\* Python None / a key missing from a JSON body
None == 0
\* the tokens found in .env at process start
T1 == 1
R1 == 2
\* access / refresh token issued by the token endpoint for request number s
AT(s) == 100 + s
RT(s) == 200 + s
Absent == -1
Lifetimes == {60, 120}
\* the instants at which the clock is read: process start, and just before
\* and at the expiry threshold (3600 - 60) of a token set up at start
Times == {0, 3480, 3540}
Dispatches == 1..MaxDispatch
Callers == 1..NCallers

VARIABLES
    prog,                  \* which script is running
    cfg,                   \* which .env entries are set
    now,                   \* time.time()
    access_token,          \* TokenManager._access_token / os.environ["TWITTER_ACCESS_TOKEN"]
    refresh_token,         \* TokenManager._refresh_token / os.environ["TWITTER_REFRESH_TOKEN"]
    access_token_expiry,   \* TokenManager._access_token_expiry
    TWITTER_ACCESS_TOKEN,  \* module global read once at import (g9, gt, zz)
    TWITTER_REFRESH_TOKEN, \* module global read once at import (g9, gt, zz)
    tokReqs,               \* requests in flight at the token endpoint
    reqSeq,                \* number of requests sent to the token endpoint so far
    lastRefresh,           \* the last completed refresh call (history)
    disp,                  \* per update: the Twitter part of its dispatch
    cpc, cres,             \* concurrent readers of TokenManager.access_token
    creds,                 \* which publishing credentials are set in .env
    message,               \* the update the handler is working on
    hpc,                   \* where the handler is
    image_path,            \* whether the temporary image file exists
    cloudinary_image_url,  \* whether the upload gave a hosted URL
    posting_tasks,         \* per target: how far its publish call is
    results,               \* per-target outcomes the handler ends up holding
    replies,               \* what the handler sent back to the sender
    served,                \* updates taken from the queue so far
    mpc,                   \* where main is
    boot,                  \* what main met at startup
    update_id,             \* the offset passed to get_updates
    inbox,                 \* update ids Telegram holds unconfirmed
    arrived,               \* update ids Telegram has issued so far
    updates,               \* the rest of the batch the for loop is in
    handled,               \* per update id: calls of the handler for it
    dropped                \* ids left in a batch when the handler raised

tmVars == <<access_token, refresh_token, access_token_expiry>>
envVars == <<prog, cfg, TWITTER_ACCESS_TOKEN, TWITTER_REFRESH_TOKEN>>
netVars == <<tokReqs, reqSeq, lastRefresh>>
callerVars == <<cpc, cres>>
handlerVars == <<creds, message, hpc, image_path, cloudinary_image_url,
                 posting_tasks, results, replies, served>>
pollVars == <<mpc, boot, update_id, inbox, arrived, updates, handled, dropped>>
twitterVars == <<cfg, now, tmVars, TWITTER_ACCESS_TOKEN, TWITTER_REFRESH_TOKEN,
                 netVars, disp, callerVars>>
vars == <<prog, cfg, now, access_token, refresh_token, access_token_expiry,
          TWITTER_ACCESS_TOKEN, TWITTER_REFRESH_TOKEN, tokReqs, reqSeq,
          lastRefresh, disp, cpc, cres, creds, message, hpc, image_path,
          cloudinary_image_url, posting_tasks, results, replies, served,
          mpc, boot, update_id, inbox, arrived, updates, handled, dropped>>

\* --------------------------------------------------------------- the .env
ConfigKeys == {"client_id", "client_secret", "access_token", "refresh_token", "v1"}
\* every entry set, or exactly one entry missing
Configs == {[k \in ConfigKeys |-> k # missing] : missing \in ConfigKeys \cup {"nothing"}}

\* the stored credential as one value
Credential == [access |-> access_token, refresh |-> refresh_token,
               expiry |-> access_token_expiry]

NoRefresh == [kind |-> "none", t |-> 0, lifetime |-> Absent, seq |-> 0,
              before |-> [access |-> None, refresh |-> None, expiry |-> 0],
              hasAccess |-> FALSE, hasRefresh |-> FALSE, latest |-> TRUE,
              by |-> 0]

NewDispatch == [pc |-> "new", attempts |-> 0, refreshes |-> 0, all401 |-> TRUE,
                mediaFailed |-> FALSE, denied |-> FALSE,
                twitter_posted |-> FALSE, retry_count |-> 0,
                image |-> TRUE, new_access_token |-> None,
                tok |-> None, exc |-> "none",
                first |-> "none", tok1 |-> None]

\* ------------------------------------------------------ the token endpoint
\* 2xx bodies: {access_token?, refresh_token?, expires_in?}
OkResponses == [status : {200}, access : BOOLEAN, refresh : BOOLEAN,
                expires_in : Lifetimes \cup {Absent}]
DeniedResponse == [status |-> 400, access |-> FALSE, refresh |-> FALSE,
                   expires_in |-> Absent]
\* a request that carries no refresh token cannot be granted
EndpointResponses(req) ==
    IF req.rt = None THEN {DeniedResponse}
    ELSE OkResponses \cup {DeniedResponse}

\* the timeout of the POST to the token endpoint, in seconds: requests.post
\* is called without one and then waits without limit (None); the httpx
\* clients are built without one and then use the 5 seconds of httpx
request_timeout(p) == IF p = "z" THEN None ELSE 5

TokenRequest(who, rt) ==
    [id |-> reqSeq + 1, by |-> who, rt |-> rt, timeout |-> request_timeout(prog)]

TweetOutcomes == {"2xx", "401", "4xx", "neterr"}
Finished == {"done", "raised"}

\* a handler that has returned leaves nothing behind but how it ended
Retired(d) == [NewDispatch EXCEPT !.pc = d.pc]

\* the dispatch records when the handler of update u starts as rec
Started(u, rec) ==
    [v \in Dispatches |->
        IF v = u THEN rec
        ELSE IF disp[v].pc \in {"done", "raised"} THEN Retired(disp[v])
        ELSE disp[v]]

\* variant: the handler is started without being awaited
CanStart_not_awaited(u) == disp[u].pc = "new"

\* updates are handled one at a time: the polling loop awaits each handler
CanStart(u) ==
    /\ disp[u].pc = "new"
    /\ \A v \in 1..(u - 1) : disp[v].pc \in Finished

Completed(kind, req, resp) ==
    [kind |-> kind, t |-> now, lifetime |-> resp.expires_in, seq |-> req.id,
     before |-> Credential, hasAccess |-> resp.access,
     hasRefresh |-> resp.refresh, latest |-> (req.id = reqSeq), by |-> req.by]

\* ================================================= social_poster_z.py ====
\* TokenManager.__init__
TokenManagerInit(c, t) ==
    [access |-> IF c.access_token THEN T1 ELSE None,
     refresh |-> IF c.refresh_token THEN R1 ELSE None,
     expiry |-> IF c.access_token THEN t + StartupLifetime ELSE 0]

\* variant: the expiry test without the 60 second buffer
is_expired_no_buffer == now >= access_token_expiry

\* TokenManager._is_expired
is_expired == now >= access_token_expiry - ExpiryBuffer

\* variant: the body of an error response is stored before the status is looked at
refresh_access_token_stores_first(resp, req) ==
    IF resp.status = 200
    THEN [cred |-> [access |-> IF resp.access THEN AT(req.id) ELSE None,
                    refresh |-> IF resp.refresh THEN RT(req.id) ELSE refresh_token,
                    expiry |-> now + (IF resp.expires_in = Absent
                                      THEN DefaultExpiresIn
                                      ELSE resp.expires_in) - ExpiryBuffer],
          exc |-> "none"]
    ELSE [cred |-> [access |-> None, refresh |-> refresh_token,
                    expiry |-> access_token_expiry],
          exc |-> "RuntimeError"]

\* TokenManager.refresh_access_token, from the response on: the credential it
\* leaves and the exception it raises
refresh_access_token(resp, req) ==
    IF resp.status = 200
    THEN [cred |-> [access |-> IF resp.access THEN AT(req.id) ELSE None,
                    refresh |-> IF resp.refresh THEN RT(req.id) ELSE refresh_token,
                    expiry |-> now + (IF resp.expires_in = Absent
                                      THEN DefaultExpiresIn
                                      ELSE resp.expires_in) - ExpiryBuffer],
          exc |-> "none"]
    ELSE [cred |-> Credential, exc |-> "RuntimeError"]

\* variant: the loop goes on after the RuntimeError instead of breaking
z_on_RuntimeError_continue(d) ==
    [d EXCEPT !.pc = "while", !.denied = TRUE, !.retry_count = @ + 1]

\* except RuntimeError: break
z_on_RuntimeError(d) == [d EXCEPT !.pc = "done", !.denied = TRUE]

\* post_to_all_platforms up to the loop
z_start(u) ==
    /\ prog = "z"
    /\ CanStart(u)
    /\ disp' = Started(u, [disp[u] EXCEPT
                               !.pc = IF cfg.client_id THEN "while" ELSE "done"])
    /\ UNCHANGED <<envVars, handlerVars, pollVars, now, tmVars, netVars, callerVars>>

\* variant: the loop only counts its rounds
z_loop_condition_counting(d) == d.retry_count < MaxRetryCount

\* while not twitter_posted and retry_count < 2
z_loop_condition(d) == ~d.twitter_posted /\ d.retry_count < MaxRetryCount

\* the loop condition and the read of twitter_token_manager.access_token,
\* up to the blocking requests.post of refresh_access_token
z_while(u) ==
    /\ prog = "z"
    /\ disp[u].pc = "while"
    /\ IF z_loop_condition(disp[u])
       THEN IF is_expired
            THEN /\ tokReqs' = tokReqs \cup {TokenRequest(u, refresh_token)}
                 /\ reqSeq' = reqSeq + 1
                 /\ disp' = [disp EXCEPT ![u].pc = "refreshing",
                                         ![u].refreshes = @ + 1]
            ELSE /\ disp' = [disp EXCEPT ![u].pc = "post",
                                         ![u].tok = access_token]
                 /\ UNCHANGED <<tokReqs, reqSeq>>
       ELSE /\ disp' = [disp EXCEPT ![u].pc = "done"]
            /\ UNCHANGED <<tokReqs, reqSeq>>
    /\ UNCHANGED <<envVars, handlerVars, pollVars, now, tmVars, lastRefresh, callerVars>>

\* the token endpoint answers; refresh_access_token stores or raises
z_refresh_response(u, resp) ==
    /\ prog = "z"
    /\ disp[u].pc = "refreshing"
    /\ \E req \in tokReqs :
        /\ req.by = u
        /\ resp \in EndpointResponses(req)
        /\ LET r == refresh_access_token(resp, req) IN
            /\ access_token' = r.cred.access
            /\ refresh_token' = r.cred.refresh
            /\ access_token_expiry' = r.cred.expiry
            /\ disp' = [disp EXCEPT ![u] =
                  IF r.exc = "none"
                  THEN [@ EXCEPT !.pc = "post", !.tok = r.cred.access]
                  ELSE z_on_RuntimeError(@)]
            /\ lastRefresh' = Completed(IF r.exc = "none" THEN "ok" ELSE "denied",
                                        req, resp)
        /\ tokReqs' = tokReqs \ {req}
    /\ UNCHANGED <<envVars, handlerVars, pollVars, now, reqSeq, callerVars>>

\* requests.post raises without a response: the except clause reads the
\* unbound name response, and the UnboundLocalError leaves the loop
z_refresh_neterr(u) ==
    /\ prog = "z"
    /\ disp[u].pc = "refreshing"
    /\ \E req \in tokReqs :
        /\ req.by = u
        /\ tokReqs' = tokReqs \ {req}
        /\ lastRefresh' = Completed("neterr", req, DeniedResponse)
    /\ disp' = [disp EXCEPT ![u].pc = "raised", ![u].exc = "UnboundLocalError"]
    /\ UNCHANGED <<envVars, handlerVars, pollVars, now, tmVars, reqSeq, callerVars>>

\* post_to_twitter(image_path, caption, access_token) and retry_count += 1
z_post(u, media_ok, outcome) ==
    /\ prog = "z"
    /\ disp[u].pc = "post"
    /\ disp' = [disp EXCEPT ![u] =
          IF cfg.v1 /\ media_ok
          THEN [@ EXCEPT !.pc = "while",
                         !.attempts = @ + 1,
                         !.all401 = @ /\ outcome = "401",
                         !.twitter_posted = (outcome = "2xx"),
                         !.retry_count = @ + 1,
                         !.first = IF @ = "none" THEN outcome ELSE @,
                         !.tok1 = IF disp[u].first = "none" THEN disp[u].tok ELSE @]
          ELSE [@ EXCEPT !.pc = "while",
                         !.mediaFailed = TRUE,
                         !.twitter_posted = FALSE,
                         !.retry_count = @ + 1,
                         !.first = IF @ = "none" THEN "media" ELSE @,
                         !.tok1 = IF disp[u].first = "none" THEN disp[u].tok ELSE @]]
    /\ UNCHANGED <<envVars, handlerVars, pollVars, now, tmVars, netVars, callerVars>>

\* time passes; only social_poster_z.py reads the clock
Tick ==
    /\ prog = "z"
    /\ \E t \in Times :
        /\ t > now
        /\ now' = t
    /\ UNCHANGED <<envVars, handlerVars, pollVars, tmVars, netVars, disp, callerVars>>

\* ============================================ social_poster_gemini9.py ====
\* the all([...]) guard at the head of post_to_twitter
g9_credentials_set ==
    cfg.client_id /\ cfg.client_secret /\ cfg.access_token /\ cfg.refresh_token
    /\ cfg.v1

\* refresh_twitter_token, from the response on: what it leaves in os.environ
\* and what it returns
g9_refresh_twitter_token(resp, req) ==
    IF resp.status = 200 /\ resp.access
    THEN [access |-> AT(req.id),
          refresh |-> IF resp.refresh THEN RT(req.id) ELSE TWITTER_REFRESH_TOKEN,
          ret |-> AT(req.id)]
    ELSE [access |-> access_token, refresh |-> refresh_token, ret |-> None]

g9_start(u, image) ==
    /\ prog = "g9"
    /\ CanStart(u)
    /\ disp' = Started(u, [disp[u] EXCEPT
                               !.pc = IF g9_credentials_set THEN "post" ELSE "done",
                               !.image = image])
    /\ UNCHANGED <<envVars, handlerVars, pollVars, now, tmVars, netVars, callerVars>>

\* media upload (a failure is swallowed) and the first POST /2/tweets; on a
\* 401 the handler calls refresh_twitter_token, which sends its request
g9_post(u, media_ok, outcome) ==
    /\ prog = "g9"
    /\ disp[u].pc = "post"
    /\ IF outcome = "401"
       THEN /\ tokReqs' = tokReqs \cup {TokenRequest(u, TWITTER_REFRESH_TOKEN)}
            /\ reqSeq' = reqSeq + 1
       ELSE UNCHANGED <<tokReqs, reqSeq>>
    /\ disp' = [disp EXCEPT ![u] =
          [@ EXCEPT !.pc = IF outcome = "401" THEN "refreshing" ELSE "done",
                    !.attempts = @ + 1,
                    !.all401 = @ /\ outcome = "401",
                    !.tok = access_token,
                    !.first = outcome,
                    !.tok1 = access_token,
                    !.twitter_posted = (outcome = "2xx"),
                    !.refreshes = IF outcome = "401" THEN @ + 1 ELSE @,
                    !.mediaFailed = disp[u].image /\ ~media_ok]]
    /\ UNCHANGED <<envVars, handlerVars, pollVars, now, tmVars, lastRefresh, callerVars>>

g9_refresh_response(u, resp) ==
    /\ prog = "g9"
    /\ disp[u].pc = "refreshing"
    /\ \E req \in tokReqs :
        /\ req.by = u
        /\ resp \in EndpointResponses(req)
        /\ LET r == g9_refresh_twitter_token(resp, req) IN
            /\ access_token' = r.access
            /\ refresh_token' = r.refresh
            /\ disp' = [disp EXCEPT ![u].pc = IF r.ret # None THEN "retry" ELSE "done",
                                    ![u].new_access_token = r.ret,
                                    ![u].denied = (r.ret = None)]
            /\ lastRefresh' = Completed(IF r.ret # None THEN "ok"
                                        ELSE IF resp.status = 200 THEN "keyerror"
                                        ELSE "denied", req, resp)
        /\ tokReqs' = tokReqs \ {req}
    /\ UNCHANGED <<envVars, handlerVars, pollVars, now, access_token_expiry, reqSeq, callerVars>>

\* client.post raises without a response: except Exception returns None
g9_refresh_neterr(u) ==
    /\ prog = "g9"
    /\ disp[u].pc = "refreshing"
    /\ \E req \in tokReqs :
        /\ req.by = u
        /\ tokReqs' = tokReqs \ {req}
        /\ lastRefresh' = Completed("neterr", req, DeniedResponse)
    /\ disp' = [disp EXCEPT ![u].pc = "done", ![u].denied = TRUE]
    /\ UNCHANGED <<envVars, handlerVars, pollVars, now, tmVars, reqSeq, callerVars>>

\* the retry inside the 401 handler: media upload again (a failure ends the
\* retry) and the second POST, sent with new_access_token
g9_retry(u, media_ok, outcome) ==
    /\ prog = "g9"
    /\ disp[u].pc = "retry"
    /\ disp' = [disp EXCEPT ![u] =
          IF disp[u].image /\ ~media_ok
          THEN [@ EXCEPT !.pc = "done", !.mediaFailed = TRUE]
          ELSE [@ EXCEPT !.pc = "done",
                         !.attempts = @ + 1,
                         !.all401 = @ /\ outcome = "401",
                         !.tok = disp[u].new_access_token,
                         !.twitter_posted = (outcome = "2xx")]]
    /\ UNCHANGED <<envVars, handlerVars, pollVars, now, tmVars, netVars, callerVars>>

\* ======================================= social_poster_grok_twitter.py ====
gt_credentials_set ==
    cfg.client_id /\ cfg.access_token /\ cfg.refresh_token /\ cfg.v1

\* refresh_twitter_token: token_data["refresh_token"] is read unconditionally
gt_refresh_twitter_token(resp, req) ==
    IF resp.status = 200 /\ resp.access /\ resp.refresh
    THEN [access |-> AT(req.id), refresh |-> RT(req.id), ret |-> AT(req.id)]
    ELSE [access |-> access_token, refresh |-> refresh_token, ret |-> None]

gt_start(u, image) ==
    /\ prog = "gt"
    /\ CanStart(u)
    /\ disp' = Started(u, [disp[u] EXCEPT
                               !.pc = IF gt_credentials_set THEN "post" ELSE "done",
                               !.image = image])
    /\ UNCHANGED <<envVars, handlerVars, pollVars, now, tmVars, netVars, callerVars>>

\* media upload (a failure ends the call) and the first POST, sent with the
\* module global TWITTER_ACCESS_TOKEN
gt_post(u, media_ok, outcome) ==
    /\ prog = "gt"
    /\ disp[u].pc = "post"
    /\ IF disp[u].image /\ ~media_ok
       THEN /\ disp' = [disp EXCEPT ![u].pc = "done", ![u].mediaFailed = TRUE,
                                    ![u].first = "media"]
            /\ UNCHANGED <<tokReqs, reqSeq>>
       ELSE /\ IF outcome = "401"
               THEN /\ tokReqs' = tokReqs \cup {TokenRequest(u, TWITTER_REFRESH_TOKEN)}
                    /\ reqSeq' = reqSeq + 1
               ELSE UNCHANGED <<tokReqs, reqSeq>>
            /\ disp' = [disp EXCEPT ![u] =
                  [@ EXCEPT !.pc = IF outcome = "401" THEN "refreshing" ELSE "done",
                            !.attempts = @ + 1,
                            !.all401 = @ /\ outcome = "401",
                            !.tok = TWITTER_ACCESS_TOKEN,
                            !.first = outcome,
                            !.tok1 = TWITTER_ACCESS_TOKEN,
                            !.twitter_posted = (outcome = "2xx"),
                            !.refreshes = IF outcome = "401" THEN @ + 1 ELSE @]]
    /\ UNCHANGED <<envVars, handlerVars, pollVars, now, tmVars, lastRefresh, callerVars>>

gt_refresh_response(u, resp) ==
    /\ prog = "gt"
    /\ disp[u].pc = "refreshing"
    /\ \E req \in tokReqs :
        /\ req.by = u
        /\ resp \in EndpointResponses(req)
        /\ LET r == gt_refresh_twitter_token(resp, req) IN
            /\ access_token' = r.access
            /\ refresh_token' = r.refresh
            /\ disp' = [disp EXCEPT ![u].pc = IF r.ret # None THEN "retry" ELSE "done",
                                    ![u].new_access_token = r.ret,
                                    ![u].denied = (r.ret = None)]
            /\ lastRefresh' = Completed(IF r.ret # None THEN "ok"
                                        ELSE IF resp.status = 200 THEN "keyerror"
                                        ELSE "denied", req, resp)
        /\ tokReqs' = tokReqs \ {req}
    /\ UNCHANGED <<envVars, handlerVars, pollVars, now, access_token_expiry, reqSeq, callerVars>>

gt_refresh_neterr(u) ==
    /\ prog = "gt"
    /\ disp[u].pc = "refreshing"
    /\ \E req \in tokReqs :
        /\ req.by = u
        /\ tokReqs' = tokReqs \ {req}
        /\ lastRefresh' = Completed("neterr", req, DeniedResponse)
    /\ disp' = [disp EXCEPT ![u].pc = "done", ![u].denied = TRUE]
    /\ UNCHANGED <<envVars, handlerVars, pollVars, now, tmVars, reqSeq, callerVars>>

\* the retry: only httpx.HTTPStatusError is caught around it
gt_retry(u, media_ok, outcome) ==
    /\ prog = "gt"
    /\ disp[u].pc = "retry"
    /\ disp' = [disp EXCEPT ![u] =
          IF disp[u].image /\ ~media_ok
          THEN [@ EXCEPT !.pc = "raised", !.mediaFailed = TRUE,
                         !.exc = "TweepyException"]
          ELSE [@ EXCEPT !.pc = IF outcome = "neterr" THEN "raised" ELSE "done",
                         !.exc = IF outcome = "neterr" THEN "RequestError" ELSE @,
                         !.attempts = @ + 1,
                         !.all401 = @ /\ outcome = "401",
                         !.tok = disp[u].new_access_token,
                         !.twitter_posted = (outcome = "2xx")]]
    /\ UNCHANGED <<envVars, handlerVars, pollVars, now, tmVars, netVars, callerVars>>

\* ================================================ social_poster_zz.py ====
zz_credentials_set ==
    cfg.client_id /\ cfg.client_secret /\ cfg.access_token /\ cfg.refresh_token
    /\ cfg.v1

zz_start(u, image) ==
    /\ prog = "zz"
    /\ CanStart(u)
    /\ disp' = Started(u, [disp[u] EXCEPT
                               !.pc = IF zz_credentials_set THEN "post" ELSE "done",
                               !.image = image])
    /\ UNCHANGED <<envVars, handlerVars, pollVars, now, tmVars, netVars, callerVars>>

\* what the 401 branch of post_to_twitter does: it calls
\* refresh_twitter_token, a name this module never defines or imports
zz_on_401(d) == [d EXCEPT !.pc = "raised", !.exc = "NameError"]

\* media upload and client_v2.create_tweet
zz_post(u, media_ok, outcome) ==
    /\ prog = "zz"
    /\ disp[u].pc = "post"
    /\ disp' = [disp EXCEPT ![u] =
          IF disp[u].image /\ ~media_ok
          THEN [@ EXCEPT !.pc = "done", !.mediaFailed = TRUE, !.first = "media"]
          ELSE LET d == [@ EXCEPT !.pc = "done",
                                  !.attempts = @ + 1,
                                  !.first = outcome,
                                  !.all401 = @ /\ outcome = "401",
                                  !.twitter_posted = (outcome = "2xx")]
               IN IF outcome = "401" THEN zz_on_401(d) ELSE d]
    /\ UNCHANGED <<envVars, handlerVars, pollVars, now, tmVars, netVars, callerVars>>

\* ======================================================= message handlers ==
HandlerPrograms == {"sp", "ap", "g2", "g5", "g6", "g7", "g9", "gt", "z", "zz"}
AllTargets == {"twitter", "telegram", "ig_feed", "ig_story", "facebook"}
CredentialNames == {"twitter", "channel", "instagram", "facebook", "cloudinary"}
\* every credential set, or exactly one missing
CredentialSets ==
    {[k \in CredentialNames |-> k # missing] :
        missing \in CredentialNames \cup {"nothing"}}

\* img.size of the photos sent; <<0, 0>> is a file Image.open cannot read
Sizes == {<<4, 5>>, <<191, 100>>, <<1000, 2000>>, <<79, 100>>, <<192, 100>>,
          <<0, 0>>}
NoMessage == [kind |-> "none", size |-> <<0, 0>>]
Messages == {[kind |-> "text", size |-> <<0, 0>>]}
            \cup {[kind |-> "image", size |-> sz] : sz \in Sizes}

\* "none": not in the plan of this dispatch; "pending": coroutine created or
\* call not yet made; "skipped": the adapter returned at its credential guard;
\* "running": its request is out; "ok"/"failed": it returned; "raised": an
\* exception left it; "publishing": the media_publish request of a two-phase
\* publish is out, sent with the id of the container ("publishing_no_id":
\* sent although the create response held no id)
TaskStates == {"none", "pending", "skipped", "running", "publishing",
               "publishing_no_id", "ok", "failed", "raised"}
InFlight == {"running", "publishing", "publishing_no_id"}
NoTasks == [t \in AllTargets |-> "none"]
NoHandler ==
    /\ creds = [k \in CredentialNames |-> TRUE]
    /\ message = NoMessage
    /\ hpc = "idle"
    /\ image_path = FALSE
    /\ cloudinary_image_url = FALSE
    /\ posting_tasks = NoTasks
    /\ results = 0
    /\ replies = <<>>
    /\ served = 0

\* ---- main: startup and the polling loop of g9, zz and g5 ----
PollPrograms == {"g9", "zz", "g5"}
UpdateIds == 1..MaxUpdateId
NoBoot == [token |-> "valid", get_me |-> TRUE, delete_webhook |-> TRUE]
\* what startup can meet: get_me answers only for a valid token
Boots ==
    {b \in [token : {"missing", "invalid", "valid"},
            get_me : BOOLEAN, delete_webhook : BOOLEAN] :
        b.get_me => b.token = "valid"}
NoPoll ==
    /\ mpc = "off"
    /\ boot = NoBoot
    /\ update_id = 0
    /\ inbox = {}
    /\ arrived = 0
    /\ updates = <<>>
    /\ handled = [i \in UpdateIds |-> 0]
    /\ dropped = {}

\* the targets a script has an adapter for
Targets(p) ==
    CASE p \in {"g9", "g7"} ->
            {"twitter", "telegram", "ig_feed", "ig_story", "facebook"}
      [] p = "zz" -> {"twitter", "telegram", "ig_feed", "ig_story"}
      [] p = "g6" -> {"twitter", "ig_feed", "ig_story"}
      [] p = "g5" -> {"twitter", "telegram", "ig_feed"}
      [] p \in {"ap", "g2"} -> {"telegram", "twitter", "ig_feed", "facebook"}
      [] p = "sp" -> {"twitter", "ig_feed"}
      [] OTHER -> {"twitter"}

\* what a target can publish: Twitter and the Telegram channel take text or
\* a photo, the Instagram and Facebook photo endpoints need an image;
\* auto_post_tg_x_ig_fb.py posts to the page feed, which takes text
Capability(p, t) ==
    IF t \in {"twitter", "telegram"} \/ (p = "ap" /\ t = "facebook")
    THEN {"text", "image"}
    ELSE {"image"}

\* the .env entries the adapter of a target needs
Requires(t) ==
    CASE t = "twitter" -> "twitter"
      [] t = "telegram" -> "channel"
      [] t \in {"ig_feed", "ig_story"} -> "instagram"
      [] t = "facebook" -> "facebook"

\* the adapter (or the handler around it) tests the target's credentials
\* before any request
guards(p, t) ==
    \/ p \in {"g9", "zz", "g5"}
    \/ p \in {"g6", "gt", "z"} /\ t = "twitter"
    \/ p = "g7" /\ t \in {"twitter", "telegram", "facebook"}

\* an exception can leave the adapter: zz calls an undefined name on 401,
\* grok5 and grok_twitter catch only HTTPStatusError around the retry, z
\* reads an unbound local in refresh_access_token, social_poster.py has no
\* try at all
escapes(p, t) ==
    \/ p \in {"zz", "g5", "gt", "z"} /\ t = "twitter"
    \/ p = "sp"

\* the kinds of message the handler is registered for or branches on
handles(p) ==
    CASE p \in {"sp", "g6", "g7", "z"} -> {"image"}
      [] p \in {"ap", "g2"} -> {"text"}
      [] OTHER -> {"text", "image"}

\* the handler's try statement covers the point where the exception occurs
caught(p, where) ==
    \/ p \in {"g9", "zz", "g6", "g7"}
    \/ p = "z" /\ where # "download"

\* the handler sends a reply when it gets to its end
replies_at_end(p) == p \notin {"gt", "g5"}

\* the handler removes the file at its end (finally, or os.remove as the
\* last statement of the photo branch)
removes_file(p) == p # "sp"

\* the photo branch (or the whole handler) saves the photo to a local file
downloads(p) == p \notin {"ap", "g2"}

\* the handler uploads the file to Cloudinary to obtain a public URL
uploads(p) == p \in {"g9", "zz", "g6", "g7"}

\* MIN_FEED_ASPECT_RATIO = 0.8 and MAX_FEED_ASPECT_RATIO = 1.91 as fractions
MIN_FEED_ASPECT_RATIO == <<80, 100>>
MAX_FEED_ASPECT_RATIO == <<191, 100>>

\* a <= b for two fractions with positive denominators
ratio_le(a, b) == a[1] * b[2] <= b[1] * a[2]

\* variant: the two bounds are excluded
is_feed_compatible_exclusive(size) ==
    /\ size[2] > 0
    /\ ~ratio_le(size, MIN_FEED_ASPECT_RATIO)
    /\ ~ratio_le(MAX_FEED_ASPECT_RATIO, size)

\* aspect_ratio = width / height; 0.8 <= aspect_ratio <= 1.91, and False
\* when Image.open or the division raises
is_feed_compatible(size) ==
    /\ size[2] > 0
    /\ ratio_le(MIN_FEED_ASPECT_RATIO, size)
    /\ ratio_le(size, MAX_FEED_ASPECT_RATIO)

\* the targets the handler calls one after another, each awaited (or
\* returned from) before the next
inline(p, m) ==
    CASE p = "sp" -> <<"twitter", "ig_feed">>
      [] p \in {"ap", "g2"} -> <<"telegram", "twitter", "ig_feed", "facebook">>
      [] p \in {"gt", "z"} -> <<"twitter">>
      [] p = "g9" /\ m.kind = "text" -> <<"telegram">>
      [] OTHER -> <<>>

\* the coroutines the handler passes to asyncio.gather
gathered(p, m, url, compat) ==
    CASE p = "g9" /\ m.kind = "image" ->
            {"twitter", "telegram"}
            \cup (IF compat /\ url THEN {"ig_feed"} ELSE {})
            \cup (IF url THEN {"ig_story", "facebook"} ELSE {})
      [] p = "g9" /\ m.kind = "text" -> {"twitter"}
      [] p = "zz" /\ m.kind = "image" ->
            {"twitter", "telegram"}
            \cup (IF url /\ compat THEN {"ig_feed"} ELSE {})
            \cup (IF url THEN {"ig_story"} ELSE {})
      [] p = "zz" /\ m.kind = "text" -> {"twitter", "telegram"}
      [] p = "g5" /\ m.kind = "image" -> {"twitter", "telegram", "ig_feed"}
      [] p = "g5" /\ m.kind = "text" -> {"twitter", "telegram"}
      [] p = "g6" ->
            (IF compat THEN {"ig_feed"} ELSE {}) \cup {"ig_story", "twitter"}
      [] p = "g7" ->
            (IF compat THEN {"ig_feed"} ELSE {})
            \cup {"ig_story", "twitter", "telegram", "facebook"}
      [] OTHER -> {}

InlineTargets == {inline(prog, message)[i] : i \in 1..Len(inline(prog, message))}
Planned == {t \in AllTargets : posting_tasks[t] # "none"}
Returned == {"skipped", "ok", "failed"}

\* the first step of an adapter: return at the credential guard, or send
started(p, t) ==
    IF guards(p, t) /\ ~creds[Requires(t)] THEN "skipped" ELSE "running"

\* Instagram publishes in two phases: POST .../media, then .../media_publish
two_phase(t) == t \in {"ig_feed", "ig_story"}

\* answers to the container-create request; status 0: no response at all
CreateResponses ==
    [status : {200, 400}, id : BOOLEAN] \cup {[status |-> 0, id |-> FALSE]}

\* the test between the two phases: 'id' in container_data, or
\* response.status_code == 200, or raise_for_status() and ['id']
proceeds(p, resp) ==
    CASE p \in {"ap", "g2"} -> resp.status = 200
      [] p = "g5" -> resp.status = 200 /\ resp.id
      [] OTHER -> resp.id

\* where the adapter is after the answer to its container-create request
after_create(p, t, resp) ==
    IF resp.status = 0
    THEN IF escapes(p, t) THEN "raised" ELSE "failed"
    ELSE IF proceeds(p, resp)
         THEN IF resp.id THEN "publishing" ELSE "publishing_no_id"
         ELSE "failed"

\* the text of the reply, as what it says of each target
success_reply(p) ==
    IF p \in {"ap", "g2"}
    THEN [kind |-> "lines",
          ok |-> {t \in Planned : posting_tasks[t] = "ok"},
          bad |-> {t \in Planned : posting_tasks[t] # "ok"}]
    ELSE [kind |-> "success", ok |-> Planned, bad |-> {}]
failure_reply == [kind |-> "failure", ok |-> {}, bad |-> Planned]

\* ============================================================ the program
Init ==
    /\ prog \in Programs
    /\ cfg \in Configs
    /\ now = 0
    /\ LET c == TokenManagerInit(cfg, 0) IN
        /\ access_token = c.access
        /\ refresh_token = c.refresh
        /\ access_token_expiry = IF prog = "z" THEN c.expiry ELSE 0
        /\ TWITTER_ACCESS_TOKEN = IF prog = "z" THEN None ELSE c.access
        /\ TWITTER_REFRESH_TOKEN = IF prog = "z" THEN None ELSE c.refresh
    /\ tokReqs = {}
    /\ reqSeq = 0
    /\ lastRefresh = NoRefresh
    /\ disp = [u \in Dispatches |-> NewDispatch]
    /\ cpc = [t \in Callers |-> "off"]
    /\ cres = [t \in Callers |-> None]
    /\ NoHandler
    /\ NoPoll

Next ==
    \/ \E u \in Dispatches : z_start(u)
    \/ \E u \in Dispatches : z_while(u)
    \/ \E u \in Dispatches, resp \in OkResponses \cup {DeniedResponse} :
          z_refresh_response(u, resp)
    \/ \E u \in Dispatches : z_refresh_neterr(u)
    \/ \E u \in Dispatches, m \in BOOLEAN, o \in TweetOutcomes : z_post(u, m, o)
    \/ Tick
    \/ \E u \in Dispatches, i \in BOOLEAN : g9_start(u, i)
    \/ \E u \in Dispatches, m \in BOOLEAN, o \in TweetOutcomes : g9_post(u, m, o)
    \/ \E u \in Dispatches, resp \in OkResponses \cup {DeniedResponse} :
          g9_refresh_response(u, resp)
    \/ \E u \in Dispatches : g9_refresh_neterr(u)
    \/ \E u \in Dispatches, m \in BOOLEAN, o \in TweetOutcomes : g9_retry(u, m, o)
    \/ \E u \in Dispatches, i \in BOOLEAN : gt_start(u, i)
    \/ \E u \in Dispatches, m \in BOOLEAN, o \in TweetOutcomes : gt_post(u, m, o)
    \/ \E u \in Dispatches, resp \in OkResponses \cup {DeniedResponse} :
          gt_refresh_response(u, resp)
    \/ \E u \in Dispatches : gt_refresh_neterr(u)
    \/ \E u \in Dispatches, m \in BOOLEAN, o \in TweetOutcomes : gt_retry(u, m, o)
    \/ \E u \in Dispatches, i \in BOOLEAN : zz_start(u, i)
    \/ \E u \in Dispatches, m \in BOOLEAN, o \in TweetOutcomes : zz_post(u, m, o)

Spec == Init /\ [][Next]_vars

\* ================== TokenManager.access_token read by concurrent callers ==
\* Callers are threads that read twitter_token_manager.access_token; each
\* runs the property's code, and the threads interleave wherever one of them
\* blocks in requests.post.
InitConc ==
    /\ prog = "z"
    /\ cfg \in {c \in Configs : c.client_id}
    /\ now = 0
    /\ LET c == TokenManagerInit(cfg, 0) IN
        /\ access_token = c.access
        /\ refresh_token = c.refresh
        /\ access_token_expiry = c.expiry
    /\ TWITTER_ACCESS_TOKEN = None
    /\ TWITTER_REFRESH_TOKEN = None
    /\ tokReqs = {}
    /\ reqSeq = 0
    /\ lastRefresh = NoRefresh
    /\ disp = [u \in Dispatches |-> NewDispatch]
    /\ cpc = [t \in Callers |-> "start"]
    /\ cres = [t \in Callers |-> None]
    /\ NoHandler
    /\ NoPoll

\* access_token: the _is_expired test, then either the return or the request
caller_read(t) ==
    /\ cpc[t] = "start"
    /\ IF is_expired
       THEN /\ tokReqs' = tokReqs \cup {TokenRequest(t, refresh_token)}
            /\ reqSeq' = reqSeq + 1
            /\ cpc' = [cpc EXCEPT ![t] = "refreshing"]
            /\ UNCHANGED cres
       ELSE /\ cpc' = [cpc EXCEPT ![t] = "returned"]
            /\ cres' = [cres EXCEPT ![t] = access_token]
            /\ UNCHANGED <<tokReqs, reqSeq>>
    /\ UNCHANGED <<envVars, handlerVars, pollVars, now, tmVars, lastRefresh, disp>>

\* the answer to the caller's request: store and return, or raise
caller_response(t, resp) ==
    /\ cpc[t] = "refreshing"
    /\ \E req \in tokReqs :
        /\ req.by = t
        /\ resp \in EndpointResponses(req)
        /\ LET r == refresh_access_token(resp, req) IN
            /\ access_token' = r.cred.access
            /\ refresh_token' = r.cred.refresh
            /\ access_token_expiry' = r.cred.expiry
            /\ cpc' = [cpc EXCEPT ![t] = IF r.exc = "none" THEN "returned" ELSE "raised"]
            /\ cres' = [cres EXCEPT ![t] = IF r.exc = "none" THEN r.cred.access ELSE @]
            /\ lastRefresh' = Completed(IF r.exc = "none" THEN "ok" ELSE "denied",
                                        req, resp)
        /\ tokReqs' = tokReqs \ {req}
    /\ UNCHANGED <<envVars, handlerVars, pollVars, now, reqSeq, disp>>

caller_neterr(t) ==
    /\ cpc[t] = "refreshing"
    /\ \E req \in tokReqs :
        /\ req.by = t
        /\ tokReqs' = tokReqs \ {req}
        /\ lastRefresh' = Completed("neterr", req, DeniedResponse)
    /\ cpc' = [cpc EXCEPT ![t] = "raised"]
    /\ UNCHANGED <<envVars, handlerVars, pollVars, now, tmVars, reqSeq, disp, cres>>

NextConc ==
    \/ \E t \in Callers : caller_read(t)
    \/ \E t \in Callers, resp \in OkResponses \cup {DeniedResponse} :
          caller_response(t, resp)
    \/ \E t \in Callers : caller_neterr(t)
    \/ Tick

SpecConc == InitConc /\ [][NextConc]_vars

\* ====================================== the handlers, one update at a time ==
InitH ==
    /\ prog \in HandlerPrograms
    /\ creds \in CredentialSets
    /\ message = NoMessage
    /\ hpc = "idle"
    /\ image_path = FALSE
    /\ cloudinary_image_url = FALSE
    /\ posting_tasks = NoTasks
    /\ results = 0
    /\ replies = <<>>
    /\ served = 0
    /\ cfg = [k \in ConfigKeys |-> TRUE]
    /\ now = 0
    /\ access_token = T1
    /\ refresh_token = R1
    /\ access_token_expiry = 0
    /\ TWITTER_ACCESS_TOKEN = T1
    /\ TWITTER_REFRESH_TOKEN = R1
    /\ tokReqs = {}
    /\ reqSeq = 0
    /\ lastRefresh = NoRefresh
    /\ disp = [u \in Dispatches |-> NewDispatch]
    /\ cpc = [t \in Callers |-> "off"]
    /\ cres = [t \in Callers |-> None]
    /\ NoPoll

\* the polling loop (or the Application) hands the next update to the handler
receive(m) ==
    /\ hpc \in {"idle", "returned", "escaped"}
    /\ \A t \in AllTargets : posting_tasks[t] \notin InFlight
    /\ served < MaxUpdates
    /\ m.kind \in handles(prog)
    /\ message' = m
    /\ served' = served + 1
    /\ image_path' = FALSE
    /\ cloudinary_image_url' = FALSE
    /\ posting_tasks' = NoTasks
    /\ results' = 0
    /\ replies' = <<>>
    /\ hpc' = IF m.kind = "image" /\ downloads(prog) THEN "download" ELSE "prepare"
    /\ UNCHANGED <<prog, creds, twitterVars, pollVars>>

\* get_file and download_to_drive (or the two GETs and the write)
download(ok) ==
    /\ hpc = "download"
    /\ image_path' = ok
    /\ hpc' = IF ok THEN "prepare"
              ELSE IF caught(prog, "download") THEN "except" ELSE "escaped"
    /\ UNCHANGED <<prog, creds, message, cloudinary_image_url, posting_tasks,
                   results, replies, served, twitterVars, pollVars>>

\* the aspect-ratio test, the Cloudinary upload and the list of posting tasks
prepare(upload_ok) ==
    /\ hpc = "prepare"
    /\ LET compat == message.kind = "image" /\ is_feed_compatible(message.size)
           url == /\ message.kind = "image"
                  /\ uploads(prog)
                  /\ creds["cloudinary"]
                  /\ upload_ok
           plan == InlineTargets \cup gathered(prog, message, url, compat)
       IN IF prog \in {"g6", "g7"} /\ ~url
          THEN \* cloudinary.uploader.upload is not guarded in gemini6, gemini7
               /\ hpc' = "except"
               /\ UNCHANGED <<cloudinary_image_url, posting_tasks>>
          ELSE /\ hpc' = "inline"
               /\ cloudinary_image_url' = url
               /\ posting_tasks' = [t \in AllTargets |->
                                       IF t \in plan THEN "pending" ELSE "none"]
    /\ UNCHANGED <<prog, creds, message, image_path, results, replies, served,
                   twitterVars, pollVars>>

\* the handler makes its next call in line
call(t) ==
    /\ hpc = "inline"
    /\ \E i \in 1..Len(inline(prog, message)) :
        /\ inline(prog, message)[i] = t
        /\ posting_tasks[t] = "pending"
        /\ \A j \in 1..(i - 1) : posting_tasks[inline(prog, message)[j]] \in Returned
    /\ posting_tasks' = [posting_tasks EXCEPT ![t] = started(prog, t)]
    /\ UNCHANGED <<prog, creds, message, hpc, image_path, cloudinary_image_url,
                   results, replies, served, twitterVars, pollVars>>

\* the answer to the container-create request of a two-phase publish
container_created(t, resp) ==
    /\ two_phase(t)
    /\ posting_tasks[t] = "running"
    /\ LET st == after_create(prog, t, resp) IN
        /\ posting_tasks' = [posting_tasks EXCEPT ![t] = st]
        /\ hpc' = IF st = "raised" /\ hpc = "inline"
                  THEN IF caught(prog, "posting") THEN "except" ELSE "escaped"
                  ELSE hpc
        /\ results' = IF prog \in {"ap", "g2"} /\ st = "failed"
                      THEN results + 1 ELSE results
    /\ UNCHANGED <<prog, creds, message, image_path, cloudinary_image_url,
                   replies, served, twitterVars, pollVars>>

\* the request of a target comes back: the adapter returns, or an exception
\* leaves it; an exception in a call made in line is the handler's at once
task_end(t, outcome) ==
    /\ \/ posting_tasks[t] = "running" /\ ~two_phase(t)
       \/ posting_tasks[t] \in {"publishing", "publishing_no_id"}
    /\ outcome \in {"ok", "failed"}
                   \cup (IF escapes(prog, t) THEN {"raised"} ELSE {})
    /\ posting_tasks' = [posting_tasks EXCEPT ![t] = outcome]
    /\ hpc' = IF outcome = "raised" /\ hpc = "inline"
              THEN IF caught(prog, "posting") THEN "except" ELSE "escaped"
              ELSE hpc
    /\ results' = IF prog \in {"ap", "g2"} THEN results + 1 ELSE results
    /\ UNCHANGED <<prog, creds, message, image_path, cloudinary_image_url,
                   replies, served, twitterVars, pollVars>>

\* await asyncio.gather(*posting_tasks): every coroutine runs up to its first
\* await before the handler is resumed
gather_start ==
    /\ hpc = "inline"
    /\ \A t \in InlineTargets : posting_tasks[t] \in Returned
    /\ posting_tasks' = [t \in AllTargets |->
                            IF posting_tasks[t] = "pending"
                            THEN started(prog, t) ELSE posting_tasks[t]]
    /\ hpc' = IF \E t \in AllTargets : posting_tasks[t] = "pending"
              THEN "gather" ELSE "after"
    /\ UNCHANGED <<prog, creds, message, image_path, cloudinary_image_url,
                   results, replies, served, twitterVars, pollVars>>

\* gather returns the list of results once every task has returned
gather_return ==
    /\ hpc = "gather"
    /\ \A t \in Planned : posting_tasks[t] \in Returned
    /\ results' = Cardinality(Planned \ InlineTargets)
    /\ hpc' = "after"
    /\ UNCHANGED <<prog, creds, message, image_path, cloudinary_image_url,
                   posting_tasks, replies, served, twitterVars, pollVars>>

\* gather without return_exceptions: the first exception of a task is raised
\* in the handler; the other tasks are not cancelled
gather_raise ==
    /\ hpc = "gather"
    /\ \E t \in Planned : posting_tasks[t] = "raised"
    /\ hpc' = IF caught(prog, "posting") THEN "except" ELSE "escaped"
    /\ UNCHANGED <<prog, creds, message, image_path, cloudinary_image_url,
                   posting_tasks, results, replies, served, twitterVars, pollVars>>

\* the end of the handler on the normal path: the reply, then the removal
finish ==
    /\ hpc = "after"
    /\ replies' = IF replies_at_end(prog) THEN <<success_reply(prog)>> ELSE <<>>
    /\ image_path' = IF removes_file(prog) THEN FALSE ELSE image_path
    /\ hpc' = "returned"
    /\ UNCHANGED <<prog, creds, message, cloudinary_image_url, posting_tasks,
                   results, served, twitterVars, pollVars>>

\* except Exception: the failure reply; finally: the removal
on_exception ==
    /\ hpc = "except"
    /\ replies' = <<failure_reply>>
    /\ image_path' = FALSE
    /\ hpc' = "returned"
    /\ UNCHANGED <<prog, creds, message, cloudinary_image_url, posting_tasks,
                   results, served, twitterVars, pollVars>>

NextH ==
    \/ \E m \in Messages : receive(m)
    \/ \E ok \in BOOLEAN : download(ok)
    \/ \E ok \in BOOLEAN : prepare(ok)
    \/ \E t \in AllTargets : call(t)
    \/ \E t \in AllTargets, resp \in CreateResponses : container_created(t, resp)
    \/ \E t \in AllTargets, o \in {"ok", "failed", "raised"} : task_end(t, o)
    \/ gather_start
    \/ gather_return
    \/ gather_raise
    \/ finish
    \/ on_exception

SpecH == InitH /\ [][NextH]_vars

\* ------------------------------------------------ main and its polling ----
\* does main reach `while True`.  telegram.Bot(token=None) raises InvalidToken
\* in the constructor, which no script catches.  g9 returns when get_me
\* raises and only warns when delete_webhook raises; zz has both calls in one
\* try whose handlers return; g5 makes neither call.  No script looks at the
\* configuration of any target.
enters_loop(p, b) ==
    CASE p = "g9" -> b.token # "missing" /\ b.get_me
      [] p = "zz" -> b.token # "missing" /\ b.get_me /\ b.delete_webhook
      [] OTHER    -> b.token # "missing"

\* at least one target of the script has the credentials it requires
configured(p, c) == \E t \in Targets(p) : c[Requires(t)]

\* the ids of a set in increasing order, as get_updates returns them
RECURSIVE ordered(_)
ordered(S) ==
    IF S = {} THEN <<>>
    ELSE LET m == CHOOSE x \in S : \A y \in S : x <= y
         IN  <<m>> \o ordered(S \ {m})

\* the ids of a sequence
ids(q) == {q[i] : i \in 1..Len(q)}

\* update_id = update.update_id + 1, before the handler is awaited
advance_batch(u, batch) == batch[Len(batch)] + 1
advance(u, batch) == u + 1

InitPoll ==
    /\ prog \in PollPrograms
    /\ creds \in CredentialSets \cup {[k \in CredentialNames |-> FALSE]}
    /\ message = NoMessage
    /\ hpc = "idle"
    /\ image_path = FALSE
    /\ cloudinary_image_url = FALSE
    /\ posting_tasks = NoTasks
    /\ results = 0
    /\ replies = <<>>
    /\ served = 0
    /\ cfg = [k \in ConfigKeys |-> TRUE]
    /\ now = 0
    /\ access_token = T1
    /\ refresh_token = R1
    /\ access_token_expiry = 0
    /\ TWITTER_ACCESS_TOKEN = T1
    /\ TWITTER_REFRESH_TOKEN = R1
    /\ tokReqs = {}
    /\ reqSeq = 0
    /\ lastRefresh = NoRefresh
    /\ disp = [u \in Dispatches |-> NewDispatch]
    /\ cpc = [t \in Callers |-> "off"]
    /\ cres = [t \in Callers |-> None]
    /\ mpc = "start"
    /\ boot = NoBoot
    /\ update_id = 0
    /\ inbox = {}
    /\ arrived = 0
    /\ updates = <<>>
    /\ handled = [i \in UpdateIds |-> 0]
    /\ dropped = {}

\* main up to `while True`
main_start(b) ==
    /\ mpc = "start"
    /\ boot' = b
    /\ mpc' = IF enters_loop(prog, b) THEN "poll" ELSE "exited"
    /\ UNCHANGED <<prog, handlerVars, twitterVars, update_id, inbox, arrived,
                   updates, handled, dropped>>

\* somebody sends the bot a message: Telegram issues the next update id
arrive ==
    /\ arrived < MaxUpdateId
    /\ arrived' = arrived + 1
    /\ inbox' = inbox \cup {arrived + 1}
    /\ UNCHANGED <<prog, handlerVars, twitterVars, mpc, boot, update_id,
                   updates, handled, dropped>>

\* updates = await bot.get_updates(offset=update_id): Telegram forgets what
\* lies below the offset and returns the rest in order.  A call that raises
\* (always, for an invalid token in g5) changes nothing and is not an action.
get_updates ==
    /\ mpc = "poll"
    /\ boot.token = "valid"
    /\ inbox' = {i \in inbox : i >= update_id}
    /\ updates' = ordered(inbox')
    /\ mpc' = "batch"
    /\ UNCHANGED <<prog, handlerVars, twitterVars, boot, update_id, arrived,
                   handled, dropped>>

\* one turn of `for update in updates`, up to the awaited handler
next_update ==
    /\ mpc = "batch"
    /\ IF updates = <<>>
       THEN /\ mpc' = "poll"
            /\ UNCHANGED <<update_id, updates, handled>>
       ELSE IF Head(updates) >= update_id
       THEN /\ update_id' = advance(Head(updates), updates)
            /\ handled' = [handled EXCEPT ![Head(updates)] = @ + 1]
            /\ mpc' = "handling"
            /\ UNCHANGED updates
       ELSE /\ updates' = Tail(updates)
            /\ UNCHANGED <<mpc, update_id, handled>>
    /\ UNCHANGED <<prog, handlerVars, twitterVars, boot, inbox, arrived, dropped>>

\* handle_telegram_message returned
handler_returns ==
    /\ mpc = "handling"
    /\ updates' = Tail(updates)
    /\ mpc' = "batch"
    /\ UNCHANGED <<prog, handlerVars, twitterVars, boot, update_id, inbox,
                   arrived, handled, dropped>>

\* handle_telegram_message raised (a target adapter in g5, the failure reply
\* in g9 and zz): the except of the loop ends the batch
handler_raises ==
    /\ mpc = "handling"
    /\ dropped' = dropped \cup ids(Tail(updates))
    /\ updates' = <<>>
    /\ mpc' = "poll"
    /\ UNCHANGED <<prog, handlerVars, twitterVars, boot, update_id, inbox,
                   arrived, handled>>

NextPoll ==
    \/ \E b \in Boots : main_start(b)
    \/ arrive
    \/ get_updates
    \/ next_update
    \/ handler_returns
    \/ handler_raises

SpecPoll == InitPoll /\ [][NextPoll]_vars

\* ================================================================ claims ==
\* the lifetime a completed refresh was given, with the default applied
GrantedLifetime ==
    IF lastRefresh.lifetime = Absent THEN 7200 ELSE lastRefresh.lifetime

\* C1: a dispatch to Twitter whose every publish attempt is answered 401
\* (uploads and refreshes working) ends after exactly 2 publish attempts and
\* exactly 1 token refresh call, in social_poster_z.py, _gemini9.py and _zz.py.
C1_TwoAttemptsOneRefresh ==
    \A u \in Dispatches :
        (/\ prog \in {"z", "g9", "zz"}
         /\ disp[u].pc \in Finished
         /\ disp[u].attempts >= 1
         /\ disp[u].all401
         /\ ~disp[u].mediaFailed
         /\ ~disp[u].denied)
        => (disp[u].attempts = 2 /\ disp[u].refreshes = 1)

\* C2: after a refresh that the token endpoint answered with a non-2xx
\* status, the stored access token, refresh token and expiry are what they
\* were before the call.
C2_FailedRefreshKeepsCredential ==
    lastRefresh.kind = "denied" => Credential = lastRefresh.before

C2_Witness ==
    /\ prog = "z"
    /\ lastRefresh.kind = "denied"
    /\ lastRefresh.before.access = T1
    /\ access_token = T1

\* C3: callers that read TokenManager.access_token concurrently while the
\* token is expired cause one request to the token endpoint, never a second
\* one while the first is in flight.
C3_OneRequestForConcurrentReaders ==
    Cardinality(tokReqs) <= 1

\* C4: refreshes of the Twitter credential are serialized: never two
\* requests in flight, and a response that is stored belongs to the refresh
\* that was started last.
C4_RefreshesSerialized ==
    /\ Cardinality(tokReqs) <= 1
    /\ lastRefresh.kind = "ok" => lastRefresh.latest

C4_Witness ==
    /\ Cardinality(tokReqs) = 1
    /\ lastRefresh.kind = "ok"
    /\ reqSeq >= 2
    /\ \E u \in Dispatches : u > 1 /\ disp[u].pc = "refreshing"

\* C5 as stated: access_token returns the stored token without a request if
\* now < expiry - 60, otherwise refreshes once, and never returns a token
\* whose stored expiry minus 60 seconds has passed.
C5_NeverReturnsExpiredToken ==
    [][\A u \in Dispatches :
          (prog = "z" /\ disp[u].pc # "post" /\ disp'[u].pc = "post")
          => now' < access_token_expiry' - 60]_vars

\* C5 amended: access_token returns the stored token without a request
\* exactly if now < expiry - 60 (then that holds of the token returned);
\* otherwise it sends exactly one refresh request and returns the token that
\* refresh stored, or raises.
C5_AccessTokenContract ==
    [][\A u \in Dispatches :
          /\ (prog = "z" /\ disp[u].pc = "while" /\ disp'[u].pc = "post")
             => /\ now < access_token_expiry - 60
                /\ reqSeq' = reqSeq
                /\ disp'[u].tok = access_token
                /\ UNCHANGED tmVars
          /\ (prog = "z" /\ disp[u].pc = "while" /\ disp'[u].pc = "refreshing")
             => /\ now >= access_token_expiry - 60
                /\ reqSeq' = reqSeq + 1
          /\ (prog = "z" /\ disp[u].pc = "while" /\ now < access_token_expiry - 60)
             => disp'[u].pc \in {"while", "post", "done"}
          /\ (prog = "z" /\ disp[u].pc = "refreshing" /\ disp'[u].pc = "post")
             => /\ reqSeq' = reqSeq
                /\ lastRefresh'.kind = "ok"
                /\ lastRefresh'.by = u
                /\ disp'[u].tok = access_token']_vars

C5_Witness ==
    \E u \in Dispatches :
        /\ prog = "z"
        /\ disp[u].pc = "post"
        /\ disp[u].refreshes = 1
        /\ disp[u].tok = AT(1)
        /\ lastRefresh.kind = "ok"

\* C6: after a successful refresh at time t with lifetime L (7200 if the
\* response gives none) the stored expiry of TokenManager is t + L.
C6_ExpiryIsRefreshTimePlusLifetime ==
    (prog = "z" /\ lastRefresh.kind = "ok")
    => access_token_expiry = lastRefresh.t + GrantedLifetime

\* C7: a refresh whose 2xx response carries an access_token but no
\* refresh_token succeeds and keeps the stored refresh token; one whose
\* response carries a refresh_token stores it.
C7_RefreshTokenRetained ==
    (lastRefresh.kind \in {"ok", "keyerror"} /\ lastRefresh.hasAccess)
    => /\ lastRefresh.kind = "ok"
       /\ ~lastRefresh.hasRefresh => refresh_token = lastRefresh.before.refresh
       /\ lastRefresh.hasRefresh => refresh_token = RT(lastRefresh.seq)

\* C8: whenever the stored expiry of TokenManager is in the future, the
\* stored access token is not empty.
C8_TokenNonEmptyWhileValid ==
    (prog = "z" /\ cfg.client_id /\ access_token_expiry > now)
    => access_token # None

\* C9: a TokenManager without client secret or refresh token never hands
\* out a token, never contacts the endpoint and never fails with the
\* refresh-denied RuntimeError.
C9_CredentialsUnavailable ==
    (prog = "z" /\ cfg.client_id /\ ~(cfg.client_secret /\ cfg.refresh_token))
    => \A u \in Dispatches :
          /\ disp[u].pc \notin {"post", "refreshing"}
          /\ ~disp[u].denied
          /\ disp[u].attempts = 0

\* C10: when the token endpoint answers a refresh with a non-2xx status,
\* the RuntimeError ends the Twitter loop of that dispatch: no publish
\* attempt and no further token request follow it.
C10_DeniedRefreshEndsTwitterAttempt ==
    \A u \in Dispatches :
        (prog = "z" /\ disp[u].denied)
        => /\ disp[u].pc = "done"
           /\ lastRefresh.kind = "denied"
           /\ lastRefresh.by = u
           /\ lastRefresh.seq = reqSeq
           /\ tokReqs = {}

C10_Witness ==
    \E u \in Dispatches :
        /\ prog = "z"
        /\ disp[u].denied
        /\ disp[u].attempts = 1
        /\ disp[u].refreshes = 2

\* C11: in social_poster_z.py and social_poster_gemini9.py, when the first
\* publish is answered 401 and a second one is sent, a refresh of this
\* dispatch succeeded in between and the second publish carries the token
\* that refresh returned, not the token of the failed attempt.
C11_RetryCarriesRefreshedToken ==
    \A u \in Dispatches :
        (prog \in {"z", "g9"} /\ disp[u].attempts = 2 /\ disp[u].first = "401")
        => /\ lastRefresh.kind = "ok"
           /\ lastRefresh.by = u
           /\ disp[u].tok = AT(lastRefresh.seq)
           /\ disp[u].tok # disp[u].tok1

\* C12: in social_poster_z.py and social_poster_gemini9.py, a first publish
\* that fails for a reason other than 401 (rejection, network error, failed
\* media upload) is the only one of its dispatch: post_to_twitter is not
\* called again and no refresh is started after it.
C12_NonAuthFailureNotRetried ==
    \A u \in Dispatches :
        (prog \in {"z", "g9"} /\ disp[u].first \in {"4xx", "neterr", "media"})
        => /\ disp[u].attempts <= 1
           /\ disp[u].retry_count <= 1
           /\ disp[u].pc \in {"while", "done"}

\* C13: in social_poster_grok_twitter.py and social_poster_gemini9.py, once
\* a refresh has stored a new access token, every publish that follows
\* carries the stored token.
C13_LaterPublishesCarryRefreshedToken ==
    [][\A u \in Dispatches :
          (/\ prog \in {"gt", "g9"}
           /\ disp'[u].attempts = disp[u].attempts + 1
           /\ access_token >= AT(1))
          => disp'[u].tok = access_token]_vars

\* the publish endpoint of a target has been called in this dispatch
Called(t) == posting_tasks[t] \in InFlight \cup {"ok", "failed", "raised"}

\* the payload kind is in the target's capability set and the target's
\* credentials are set
Eligible(t) == message.kind \in Capability(prog, t) /\ creds[Requires(t)]

\* C14: in social_poster.py and social_poster_zz.py, once the handler is over,
\* a target whose publish failed or raised has not kept any other target of
\* the plan from being attempted and from returning, and the reply reports no
\* failure for a target that succeeded.
C14_FailureLeavesOtherTargetsAlone ==
    (prog \in {"sp", "zz"} /\ hpc \in {"returned", "escaped"})
    => \A t \in Planned :
          (\E f \in Planned \ {t} : posting_tasks[f] \in {"failed", "raised"})
          => /\ posting_tasks[t] \in {"skipped", "ok", "failed", "raised"}
             /\ posting_tasks[t] = "ok"
                => \A i \in 1..Len(replies) : t \notin replies[i].bad

\* C15: in social_poster_zz.py and social_poster_grok5.py the handler replies
\* or returns only when every publish task of the dispatch has finished, also
\* when one of the tasks raises.
C15_ReplyAfterAllTasks ==
    (prog \in {"zz", "g5"} /\ (replies # <<>> \/ hpc \in {"returned", "escaped"}))
    => \A t \in AllTargets : posting_tasks[t] \notin {"pending"} \cup InFlight

\* C16: in social_poster_gemini9.py and auto_post_tg_x_ig_fb.py the sender
\* gets exactly one reply, which states success only for targets whose publish
\* succeeded and states the failure of every target whose publish failed.
C16_OneTruthfulSummary ==
    (prog \in {"g9", "ap"} /\ hpc = "returned")
    => /\ Len(replies) = 1
       /\ \A t \in Planned :
             /\ t \in replies[1].ok => posting_tasks[t] = "ok"
             /\ posting_tasks[t] \in {"failed", "raised"} => t \in replies[1].bad

\* C17: in social_poster_gemini9.py, social_poster_grok_twitter.py and
\* social_poster_z.py, when the handler of a photo message is over, whichever
\* way it ended, the temporary image file does not exist.
C17_TempFileRemoved ==
    (prog \in {"g9", "gt", "z"} /\ message.kind = "image"
     /\ hpc \in {"returned", "escaped"})
    => ~image_path

\* C18: in social_poster_gemini9.py and auto_post_tg_x_ig_fb.py the publish
\* endpoint of a target is called only if the target is eligible (payload kind
\* in its capability set, credentials set), and by the end of the handler the
\* endpoint of every eligible target has been called.
C18_CalledIffEligible ==
    prog \in {"g9", "ap"}
    => \A t \in Targets(prog) :
          /\ Called(t) => Eligible(t)
          /\ (hpc = "returned" /\ Eligible(t)) => Called(t)

\* C19: in social_poster_gemini9.py and social_poster_grok2.py, when the
\* handler has completed, it holds as many per-target outcomes as there are
\* targets whose capability set contains the payload kind.
C19_OneOutcomePerCapableTarget ==
    (prog \in {"g9", "g2"} /\ hpc = "returned")
    => results = Cardinality({t \in Targets(prog) :
                                 message.kind \in Capability(prog, t)})

\* C20: in social_poster_gemini9.py, social_poster_zz.py and
\* social_poster_gemini6.py, for a photo of width w and height h > 0 that has
\* a hosted URL, the Instagram feed task is in the plan exactly if
\* 10 w >= 8 h and 100 w <= 191 h, and the story task is in the plan whatever
\* the ratio.
C20_AspectRatioGate ==
    (prog \in {"g9", "zz", "g6"} /\ cloudinary_image_url /\ message.size[2] > 0)
    => /\ posting_tasks["ig_feed"] # "none"
          <=> (/\ 10 * message.size[1] >= 8 * message.size[2]
               /\ 100 * message.size[1] <= 191 * message.size[2])
       /\ posting_tasks["ig_story"] # "none"

\* a 1000 x 2000 photo with a hosted URL: no feed task, the story published
C20_Witness ==
    /\ prog \in {"g9", "zz", "g6"}
    /\ cloudinary_image_url
    /\ message.size = <<1000, 2000>>
    /\ posting_tasks["ig_feed"] = "none"
    /\ posting_tasks["ig_story"] = "ok"

\* the adapters that are given the hosted URL / the local file
UrlTargets == {"ig_feed", "ig_story", "facebook"}
FileTargets == {"twitter", "telegram"}

\* C21: in social_poster_gemini9.py and social_poster_gemini7.py, when the
\* photo was downloaded and the Cloudinary upload gave no URL, no adapter that
\* needs the URL makes a call, Twitter and the Telegram channel are attempted
\* all the same, and the reply reports each URL target as failed.
C21_NoHostedUrl ==
    (/\ prog \in {"g9", "g7"}
     /\ message.kind = "image"
     /\ ~cloudinary_image_url
     /\ \/ hpc = "except" /\ image_path
        \/ hpc = "returned" /\ replies # <<>> /\ replies[1].kind = "success")
    => /\ \A t \in UrlTargets : ~Called(t)
       /\ \A t \in FileTargets : posting_tasks[t] \notin {"none", "pending"}
       /\ hpc = "returned"
          => \A t \in UrlTargets \cap Targets(prog) : t \in replies[1].bad

\* C22: in every two-phase Instagram publish of social_poster_gemini9.py and
\* auto_post_tg_x_ig_fb.py the media_publish request is sent only when the
\* container-create request of the same call returned an id.
C22_PublishOnlyAfterContainerId ==
    prog \in {"g9", "ap"}
    => \A t \in AllTargets : posting_tasks[t] # "publishing_no_id"

\* C23: in social_poster_grok5.py and social_poster_zz.py no failure of a
\* publish or of the token refresh leaves an adapter or the handler as an
\* exception, and a dispatch in which a target succeeded is not answered with
\* the reply that the whole request failed.
C23_FailuresStayPerTarget ==
    prog \in {"g5", "zz"}
    => /\ hpc # "escaped"
       /\ \A t \in AllTargets : posting_tasks[t] # "raised"
       /\ (\E t \in AllTargets : posting_tasks[t] = "ok")
          => \A i \in 1..Len(replies) : replies[i].kind # "failure"

\* C24: in social_poster_z.py and social_poster_gemini9.py every request to
\* the token endpoint is sent with a timeout, so that an endpoint that never
\* answers cannot keep the dispatch from completing.
C24_TokenRequestsBounded ==
    prog \in {"z", "g9"} => \A req \in tokReqs : req.timeout # None

\* C25: in social_poster_gemini9.py and social_poster_zz.py main ends without
\* entering the polling loop only when startup met a failure or no target is
\* completely configured, and it always ends so when the Telegram token is
\* missing or invalid or when no target is completely configured.
C25_ExitsExactlyWhenUnusable ==
    (prog \in {"g9", "zz"} /\ mpc \notin {"off", "start"})
    => /\ mpc = "exited"
          => \/ boot.token # "valid"
             \/ ~boot.get_me
             \/ ~boot.delete_webhook
             \/ ~configured(prog, creds)
       /\ (boot.token # "valid" \/ ~configured(prog, creds))
          => mpc = "exited"

\* C29: in the polling loop of social_poster_gemini9.py and
\* social_poster_grok5.py the offset update_id never decreases, no update is
\* passed to handle_telegram_message more than once, an update that was
\* handled lies below the offset, and an update left in a batch whose handler
\* raised stays available to a later poll until it is handled.
C29_PollingHandlesEachUpdateOnce ==
    /\ [](prog \in {"g9", "g5"}
          => /\ \A i \in UpdateIds : handled[i] <= 1
             /\ \A i \in UpdateIds : handled[i] = 1 => i < update_id
             /\ \A i \in dropped :
                    handled[i] = 0 => (i \in inbox /\ i >= update_id))
    /\ [][(prog \in {"g9", "g5"}) => (update_id' >= update_id)]_vars

\* the handler raised on update 1 with update 2 left in its batch, and a
\* later poll has handled update 2
C29_Witness ==
    /\ prog \in {"g9", "g5"}
    /\ 2 \in dropped
    /\ handled[1] = 1
    /\ handled[2] = 1
    /\ mpc = "poll"

\* C26: every refresh request sent by refresh_twitter_token
\* (social_poster_gemini9.py; social_poster_grok5.py has the function of
\* social_poster_grok_twitter.py) carries the refresh token stored by the
\* latest successful refresh, the rotated one once a refresh returned one.
C26_RefreshSendsRotatedToken ==
    prog \in {"g9", "gt"} => \A req \in tokReqs : req.rt = refresh_token

\* C27: in social_poster_z.py a dispatch whose token request failed, with an
\* error status or without any response, ends in the break of the
\* except RuntimeError clause of post_to_all_platforms, with no other
\* exception, and with the stored credential as it was before the request.
C27_TokenFailureEndsInBreak ==
    prog = "z"
    => \A u \in Dispatches :
          (/\ disp[u].refreshes > 0
           /\ disp[u].pc \in Finished
           /\ lastRefresh.by = u
           /\ lastRefresh.kind \in {"denied", "neterr"})
          => /\ disp[u].pc = "done"
             /\ disp[u].denied
             /\ disp[u].exc = "none"
             /\ Credential = lastRefresh.before

\* C28: in social_poster_zz.py, while a publish task of a photo dispatch
\* that reads the temporary image file (the Twitter media upload, the
\* Telegram send_photo) is still running, the file has not been removed.
C28_FileOutlivesItsReaders ==
    (prog = "zz" /\ message.kind = "image" /\ hpc # "download")
    => ((\E t \in FileTargets : posting_tasks[t] \in InFlight) => image_path)

\* C30: in social_poster_gemini9.py, social_poster_z.py and
\* social_poster_zz.py, once a POST of a tweet of a dispatch has succeeded,
\* no further tweet is posted for the same message, neither by the retry
\* loop nor after a refresh.
C30_AtMostOneSuccessfulPublish ==
    [][(prog \in {"g9", "z", "zz"})
       => \A u \in Dispatches :
             disp[u].twitter_posted => (disp'[u].attempts <= disp[u].attempts)]_vars

\* the first tweet of a dispatch of social_poster_z.py succeeded and the
\* loop has ended with a round to spare
C30_Witness ==
    /\ prog = "z"
    /\ \E u \in Dispatches :
          /\ disp[u].pc = "done"
          /\ disp[u].twitter_posted
          /\ disp[u].attempts = 1
          /\ disp[u].retry_count < MaxRetryCount

====
